---- MODULE Spec2Model ----
(***************************************************************************)
(* A model of the EventEmitter class of src/src/index.ts (sergeysova/      *)
(* emitting): the listener registry (a Map from event to a Set of          *)
(* listeners), on / once / take / takeTimeout / takeEither / emit / off,   *)
(* the unsubscribe closures, the deferred promises and the timers.         *)
(*                                                                         *)
(* The program is single threaded.  emit calls the listeners               *)
(* synchronously, and a listener is user code that may call any method of  *)
(* the emitter before it returns, so the model keeps the call stack: one   *)
(* frame for each Set.prototype.forEach in progress and one for each user  *)
(* listener that is running.                                               *)
(***************************************************************************)
EXTENDS Integers, Sequences, FiniteSets, TLC

\* ------------------------------------------------------------------ bounds
MaxDepth == 2       \* emissions in progress at the same time (nesting)
MaxSlots == 3       \* entries (live or deleted) of one Set object
MaxOnce == 1        \* calls of once
MaxDeferred == 1    \* promises created by take / takeTimeout / takeEither
MaxInner == 1       \* calls of emitter methods made from inside listeners

\* ----------------------------------------------------------------- values
Event == {"first", "second"}
Payload == {100, 200}
\* the value of reject(undefined)
Undefined == 0
\* the user's listener functions
User == {"a", "b"}
Fn(u) == <<"fn", u>>
Adapter(k) == <<"once", k>>
\* a deleted entry of a Set's [[SetData]] list
Empty == <<"empty", 0>>
\* every adapter is a new closure: once makes one, take and takeTimeout
\* make one, takeEither makes two
MaxClosures == MaxOnce + 2 * MaxDeferred
Listener == {Fn(u) : u \in User} \cup {Adapter(k) : k \in 1..MaxClosures}

VARIABLES
    listeners,  \* the Map: for each event whether the Map has an entry for
                \* it and, if so, the [[SetData]] list of the entry's Set
    closures,   \* the adapters created by once: event, wrapped listener,
                \* and (history) the payloads the wrapped listener got
    deferreds,  \* the promises: state, value, and the state of the timer
    stack,      \* the call stack, innermost frame last
    inner,      \* how many calls listeners have made so far
    handles,    \* the unsubscribe closures the user holds (returned by on
                \* and once), as the <<event, listener>> they capture
    callbacks,  \* the closures the user holds that emitCallback returned,
                \* as the event they capture
    hist,       \* which histories are recorded (fixed by the specification:
                \* every property needs only some of them)
    reg,        \* history "reg": for <<event, user listener>>, what
                \* happened since on registered it
    gone        \* history "gone": for <<event, listener>>, what removed it
                \* since it was last added: "unsubscribe", or "off" (then or
                \* later); "no": nothing; with history "again" also "again":
                \* nothing, and it was added again after an off

vars ==
    <<listeners, closures, deferreds, stack, inner, handles, callbacks, hist, reg, gone>>

\* ------------------------------------------------------- Set and Map model
\* Set.prototype.has
Has(s, l) == \E i \in 1..Len(s) : s[i] = l

\* the members of a Set
Members(s) == {s[i] : i \in 1..Len(s)} \ {Empty}

\* (mutant) an array push in place of Set.prototype.add
SetAddAlways(s, l) == Append(s, l)

\* Set.prototype.add: appends unless present
SetAdd(s, l) == IF Has(s, l) THEN s ELSE Append(s, l)

\* Set.prototype.delete: the entry is replaced by empty, the list keeps its
\* length, so that a forEach in progress keeps its position
SetDelete(s, l) == [i \in 1..Len(s) |-> IF s[i] = l THEN Empty ELSE s[i]]

\* no entry in the Map
NoEntry == [has |-> FALSE, set |-> <<>>]

\* the members of event e's Set, {} when the Map has no entry
MembersOf(m, e) == Members(m[e].set)

\* (mutant) on that creates the Set of a new event and forgets the listener
onForgets(m, e, l) ==
    IF m[e].has THEN [m EXCEPT ![e].set = SetAdd(@, l)]
    ELSE [m EXCEPT ![e] = [has |-> TRUE, set |-> <<>>]]

\* on, lines 49-56
on(m, e, l) ==
    LET m1 == IF m[e].has THEN m ELSE [m EXCEPT ![e] = [has |-> TRUE, set |-> <<>>]]
    IN  [m1 EXCEPT ![e].set = SetAdd(@, l)]

\* (mutant) splice(indexOf(listener), 1) on an array: removes the last
\* entry when the listener is not there
unsubscribeSplice(m, e, l) ==
    IF ~m[e].has THEN m
    ELSE IF Has(m[e].set, l) THEN [m EXCEPT ![e].set = SetDelete(@, l)]
    ELSE [m EXCEPT ![e].set = [i \in 1..Len(@) |-> IF i = Len(@) THEN Empty ELSE @[i]]]

\* (mutant) an unsubscribe closure that clears the Set
unsubscribeClears(m, e, l) ==
    IF m[e].has THEN [m EXCEPT ![e].set = [i \in 1..Len(@) |-> Empty]] ELSE m

\* (mutant) reference counting: while on was called more than once for the
\* listener, a handle leaves it in the Set
unsubscribeCounted(m, e, l) ==
    IF \E x \in DOMAIN reg : x[1] = e /\ <<"fn", x[2]>> = l /\ reg[x].k = 2
    THEN m
    ELSE IF m[e].has THEN [m EXCEPT ![e].set = SetDelete(@, l)] ELSE m

\* the closure returned by on, lines 58-63
unsubscribe(m, e, l) ==
    IF m[e].has THEN [m EXCEPT ![e].set = SetDelete(@, l)] ELSE m

\* (mutant) this.listeners.clear()
offClearsAll(m, e) == [x \in DOMAIN m |-> NoEntry]

\* (mutant) an off that deletes nothing
offNothing(m, e) == m

\* off, line 189
off(m, e) == [m EXCEPT ![e] = NoEntry]

\* --------------------------------------------------------------- promises
\* resolve / reject of a promise: the first call settles it, later calls
\* are ignored
Settle(ds, d, st, v) ==
    IF ds[d].state = "pending"
    THEN [ds EXCEPT ![d].state = st, ![d].value = v]
    ELSE ds

\* (mutant) a listener of takeTimeout that leaves the timer running
ClearTimeoutNot(ds, d) == ds

\* clearTimeout: cancels a timer that has not fired
ClearTimeout(ds, d) ==
    IF ds[d].timer = "armed" THEN [ds EXCEPT ![d].timer = "cleared"] ELSE ds

\* createDeferred, lines 199-207 (and new Promise of takeEither), with the
\* timer of takeTimeout and the event and adapter the promise waits on
createDeferred(timer, e, k) ==
    [state |-> "pending", value |-> Undefined, timer |-> timer,
     event |-> e, adapter |-> k,
     first |-> Undefined, want |-> "pending", clean |-> TRUE]

\* the adapter (value) => { listener(value); unsubscribe() } of once
Closure(e, kind, id, other) ==
    [event |-> e, inner |-> [kind |-> kind, id |-> id, other |-> other],
     got |-> <<>>]

\* ------------------------------------------------------------------ stack
Top == stack[Len(stack)]
Pop(s) == SubSeq(s, 1, Len(s) - 1)

\* user code runs at top level (no frame) or inside a user listener, where
\* the model lets the listeners make MaxInner calls in all
UserRuns ==
    IF stack = <<>> THEN TRUE ELSE Top.kind = "fn" /\ inner < MaxInner

\* the count of the calls made by listeners, after one more user call
\* (history "free": the calls are not counted, a listener makes as many as
\* it likes)
Counted == IF stack = <<>> \/ "free" \in hist THEN inner ELSE inner + 1

ForEachFrames == {i \in 1..Len(stack) : stack[i].kind = "forEach"}

\* (mutant) an emit that walks the Sets of all events
ItemsAll(f) ==
    IF f.live
    THEN listeners[f.event].set \o listeners[CHOOSE x \in Event : x # f.event].set
    ELSE f.items

\* the list a forEach frame walks: the event's Set while the Map still
\* holds it, the frame's own copy once off has dropped it from the Map
\* (nothing can reach the dropped Set any more, so it no longer changes)
Items(f) == IF f.live THEN listeners[f.event].set ELSE f.items

\* off(e) seen from the frames: the forEach calls in progress on e's Set
\* keep walking that Set object
Detach(s, e) ==
    [i \in 1..Len(s) |->
        IF s[i].kind = "forEach" /\ s[i].event = e /\ s[i].live
        THEN [s[i] EXCEPT !.live = FALSE, !.items = listeners[e].set]
        ELSE s[i]]

\* a forEach frame: event and value of the emit call, the list it walks and
\* its index; history: the listeners it has called, the listeners that were
\* removed from the event while it was in progress, the user listeners that
\* on registered for the event while it was in progress, and (history
\* "start") the members of the Set when the call began
Frame(e, p) ==
    [kind |-> "forEach", event |-> e, value |-> p, live |-> TRUE, items |-> <<>>,
     idx |-> 0, visited |-> <<>>, late |-> {}, newcomers |-> {},
     start |-> IF "start" \in hist THEN MembersOf(listeners, e) ELSE {}]

\* The empty entries of a Set matter to the forEach calls in progress on
\* it only (they keep the index of each in place): a Set that no forEach
\* walks is kept without them
Sweep(m, s) ==
    [e \in DOMAIN m |->
        IF \E i \in 1..Len(s) : s[i].kind = "forEach" /\ s[i].event = e /\ s[i].live
        THEN m[e]
        ELSE [m[e] EXCEPT !.set = SelectSeq(@, LAMBDA l : l # Empty)]]

\* ---------------------------------------------------------------- history
\* history h is recorded
H(h) == h \in hist

\* the payloads emit is called with: one value where no history reads the
\* payloads
Values == IF H("order") \/ H("value") THEN Payload ELSE {100}

Count(q, x) == Cardinality({i \in 1..Len(q) : q[i] = x})

\* q without its first x
Without(q, x) ==
    LET i == CHOOSE j \in 1..Len(q) : q[j] = x /\ \A h \in 1..(j - 1) : q[h] # x
    IN  SubSeq(q, 1, i - 1) \o SubSeq(q, i + 1, Len(q))

NoReg == [on |-> FALSE, k |-> 0, seq |-> TRUE, owed |-> <<>>, early |-> 0,
          stray |-> FALSE, inorder |-> TRUE]

\* the registration of <<e, Fn(u)>> after on(e, Fn(u)).  A first on starts
\* the history: owed, the payloads of the emit(e, .) calls made since that
\* have not called the listener yet, in call order; early, the calls of the
\* listener by emissions that began before the registration; stray, whether
\* it was called with a payload not owed; inorder, whether each call came
\* with the oldest payload owed; seq, whether no emission of e was in
\* progress at the registration and at each emit(e, .) since.  k counts the
\* calls of on (1, or 2 for more)
Registered(r, e) ==
    IF ~H("reg") THEN r
    ELSE IF r.on THEN [r EXCEPT !.k = IF H("dup") THEN 2 ELSE @]
    ELSE [NoReg EXCEPT !.on = TRUE, !.k = 1,
                       !.seq = \A j \in ForEachFrames : stack[j].event # e]

\* the registration after a call of the listener with payload p by a
\* forEach frame f
Received(r, f, u, p) ==
    IF ~r.on \/ ~H("order") THEN r
    ELSE IF u \in f.newcomers THEN [r EXCEPT !.early = @ + 1]
    ELSE IF ~Has(r.owed, p) THEN [r EXCEPT !.stray = TRUE]
    ELSE [r EXCEPT !.owed = Without(@, p), !.inorder = @ /\ Head(r.owed) = p]

Untrack(r, keys) == [x \in DOMAIN r |-> IF x \in keys THEN NoReg ELSE r[x]]

\* the listeners ls of event e are removed now, by an unsubscribe closure
\* or by off (the first removal is the one kept)
Present == {"no", "again"}
RemovedNow(g, e, ls, by) ==
    [x \in DOMAIN g |->
        IF H("gone") /\ x[1] = e /\ x[2] \in ls /\ (g[x] \in Present \/ by = "off")
        THEN by ELSE g[x]]

\* what a call of the handle of <<e, l>> is recorded as: "either" (history
\* "dup") when on was called more than once for the listener, so that the
\* user holds two handles of it
By(e, l) ==
    IF H("dup") /\ \E u \in User : Fn(u) = l /\ reg[<<e, u>>].k = 2
    THEN "either" ELSE "unsubscribe"

\* listener l is added to event e (again)
AddedNow(g, e, l) ==
    [g EXCEPT ![<<e, l>>] = IF H("again") /\ @ \in {"off", "again"} THEN "again" ELSE "no"]

\* the same seen from the forEach frames in progress on event e
Late(s, e, ls) ==
    [i \in 1..Len(s) |->
        IF s[i].kind = "forEach" /\ s[i].event = e
        THEN [s[i] EXCEPT !.late = @ \cup {l \in ls : H("gone") /\ gone[<<e, l>>] \in Present},
                          !.newcomers = @ \ {u \in User : Fn(u) \in ls}]
        ELSE s[i]]

\* a first on(e, Fn(u)) seen from the forEach frames in progress on event e
Newcomer(s, e, u) ==
    [i \in 1..Len(s) |->
        IF s[i].kind = "forEach" /\ s[i].event = e /\ H("reg") /\ ~reg[<<e, u>>].on
        THEN [s[i] EXCEPT !.newcomers = @ \cup {u}]
        ELSE s[i]]

\* no emission of event e is in progress
Fresh(e) == \A j \in ForEachFrames : stack[j].event # e

\* the events promise w waits on: its event, and for takeEither the event
\* of the failure listener
Waited(w) ==
    {w.event} \cup
        (IF closures[w.adapter].inner.other = 0 THEN {}
         ELSE {closures[closures[w.adapter].inner.other].event})

\* history "value" of a promise waiting on event e: first is the payload of
\* the first emit of an event it waits on called after its creation, want
\* the outcome this emit stands for, and clean says that it was created and
\* these emit calls were made while no emission of an event it waits on was
\* in progress and that off was not called for such an event, all this
\* until it settles
Awaiting(ds, e) ==
    {d \in 1..Len(ds) : H("value") /\ e \in Waited(ds[d]) /\ ds[d].state = "pending"}
Waits(w, e) == IF H("value") THEN [w EXCEPT !.clean = @ /\ Fresh(e)] ELSE w
Heard(ds, e, p) ==
    [d \in 1..Len(ds) |->
        IF d \in Awaiting(ds, e)
        THEN [ds[d] EXCEPT
                !.want = IF ds[d].first # Undefined THEN @
                         ELSE IF e = ds[d].event THEN "resolved" ELSE "rejected",
                !.first = IF @ = Undefined THEN p ELSE @,
                !.clean = @ /\ \A x \in Waited(ds[d]) : Fresh(x)]
        ELSE ds[d]]
Cut(ds, e) ==
    [d \in 1..Len(ds) |->
        IF d \in Awaiting(ds, e) THEN [ds[d] EXCEPT !.clean = FALSE] ELSE ds[d]]

\* the state after new EventEmitter(), line 32
Created ==
    /\ listeners = [e \in Event |-> NoEntry]
    /\ closures = <<>>
    /\ deferreds = <<>>
    /\ stack = <<>>
    /\ inner = 0
    /\ handles = {}
    /\ callbacks = {}
    /\ reg = [x \in Event \X User |-> NoReg]
    /\ gone = [x \in Event \X Listener |-> "no"]

\* the new instance, observed with the histories h
Started(h) == Created /\ hist = h

Init == Started({})

\* on may add an entry to e's Set only while the list has room
Room(e, n) == Len(listeners[e].set) + n <= MaxSlots

\* ------------------------------------------------------------ user calls
\* on(event, listener), lines 45-64
On(e, u) ==
    /\ UserRuns
    /\ Has(listeners[e].set, Fn(u)) \/ Room(e, 1)
    /\ listeners' = on(listeners, e, Fn(u))
    /\ stack' = Newcomer(stack, e, u)
    /\ inner' = Counted
    /\ handles' = handles \cup {<<e, Fn(u)>>}
    /\ reg' = [reg EXCEPT ![<<e, u>>] = Registered(@, e)]
    /\ gone' = AddedNow(gone, e, Fn(u))
    /\ UNCHANGED <<closures, deferreds, hist, callbacks>>

\* once(event, listener), lines 75-84
Once(e, u) ==
    /\ UserRuns
    /\ Cardinality({k \in 1..Len(closures) : closures[k].inner.kind = "fn"}) < MaxOnce
    /\ Room(e, 1)
    /\ LET k == Len(closures) + 1 IN
        /\ closures' = Append(closures, Closure(e, "fn", u, 0))
        /\ listeners' = on(listeners, e, Adapter(k))
        /\ handles' = handles \cup {<<e, Adapter(k)>>}
    /\ inner' = Counted
    /\ UNCHANGED <<deferreds, stack, hist, callbacks, reg, gone>>

\* take(event), lines 94-98
Take(e) ==
    /\ UserRuns
    /\ Len(deferreds) < MaxDeferred
    /\ Room(e, 1)
    /\ LET k == Len(closures) + 1
           d == Len(deferreds) + 1 IN
        /\ deferreds' = Append(deferreds, Waits(createDeferred("none", e, k), e))
        /\ closures' = Append(closures, Closure(e, "take", d, 0))
        /\ listeners' = on(listeners, e, Adapter(k))
    /\ inner' = Counted
    /\ UNCHANGED <<stack, handles, hist, callbacks, reg, gone>>

\* takeTimeout(event, timeout), lines 114-131
TakeTimeout(e) ==
    /\ UserRuns
    /\ Len(deferreds) < MaxDeferred
    /\ Room(e, 1)
    /\ LET k == Len(closures) + 1
           d == Len(deferreds) + 1 IN
        /\ deferreds' = Append(deferreds, Waits(createDeferred("armed", e, k), e))
        /\ closures' = Append(closures, Closure(e, "takeTimeout", d, 0))
        /\ listeners' = on(listeners, e, Adapter(k))
    /\ inner' = Counted
    /\ UNCHANGED <<stack, handles, hist, callbacks, reg, gone>>

\* takeEither(success, failure), lines 145-159
TakeEither(s, f) ==
    /\ UserRuns
    /\ Len(deferreds) < MaxDeferred
    /\ Room(s, IF s = f THEN 2 ELSE 1) /\ Room(f, IF s = f THEN 2 ELSE 1)
    /\ LET k == Len(closures) + 1
           d == Len(deferreds) + 1 IN
        /\ deferreds' = Append(deferreds, Waits(Waits(createDeferred("none", s, k), s), f))
        /\ closures' = closures \o <<Closure(s, "success", d, k + 1),
                                     Closure(f, "failure", d, k)>>
        /\ listeners' = on(on(listeners, s, Adapter(k)), f, Adapter(k + 1))
    /\ inner' = Counted
    /\ UNCHANGED <<stack, handles, hist, callbacks, reg, gone>>

\* (mutant) an emit that, as on does, creates the Set of an event without entry
EmitCreates(e, p) ==
    /\ UserRuns
    /\ Cardinality(ForEachFrames) < MaxDepth
    /\ stack' = IF listeners[e].has THEN Append(stack, Frame(e, p)) ELSE stack
    /\ inner' = Counted
    /\ reg' = [x \in DOMAIN reg |->
                IF x[1] = e /\ reg[x].on /\ H("order")
                THEN [reg[x] EXCEPT
                        !.owed = Append(@, p),
                        !.seq = @ /\ \A j \in ForEachFrames : stack[j].event # e]
                ELSE reg[x]]
    /\ deferreds' = Heard(deferreds, e, p)
    /\ listeners' = IF listeners[e].has THEN listeners
                   ELSE [listeners EXCEPT ![e] = [has |-> TRUE, set |-> <<>>]]
    /\ UNCHANGED <<closures, handles, hist, callbacks, gone>>

\* emit(event, value), lines 165-171: the call itself, up to forEach
Emit(e, p) ==
    /\ UserRuns
    /\ Cardinality(ForEachFrames) < MaxDepth
    /\ stack' = IF listeners[e].has THEN Append(stack, Frame(e, p)) ELSE stack
    /\ inner' = Counted
    /\ reg' = [x \in DOMAIN reg |->
                IF x[1] = e /\ reg[x].on /\ H("order")
                THEN [reg[x] EXCEPT
                        !.owed = Append(@, p),
                        !.seq = @ /\ \A j \in ForEachFrames : stack[j].event # e]
                ELSE reg[x]]
    /\ deferreds' = Heard(deferreds, e, p)
    /\ UNCHANGED <<listeners, closures, handles, hist, callbacks, gone>>

\* emitCallback(event), lines 173-177: returns (value) => this.emit(event, value)
EmitCallback(e) ==
    /\ UserRuns
    /\ callbacks' = callbacks \cup {e}
    /\ inner' = Counted
    /\ UNCHANGED <<listeners, closures, deferreds, stack, handles, hist, reg, gone>>

\* (mutant) a callback () => this.emit(event) that drops its argument
CallbackBare(e, v) == e \in callbacks /\ Emit(e, Undefined)

\* a call of a closure that emitCallback returned, line 176, with value v
Callback(e, v) == e \in callbacks /\ Emit(e, v)

\* the listeners off(e) ends the registration of: the members of e's Set
\* and those the user holds an unsubscribe closure for
Removable(e) == MembersOf(listeners, e) \cup {x[2] : x \in {h \in handles : h[1] = e}}

\* off(event), lines 188-190
Off(e) ==
    /\ UserRuns
    /\ stack' = Late(Detach(stack, e), e, Removable(e))
    /\ listeners' = Sweep(off(listeners, e), stack')
    /\ inner' = Counted
    /\ reg' = Untrack(reg, {e} \X User)
    /\ gone' = RemovedNow(gone, e, Removable(e), "off")
    /\ deferreds' = Cut(deferreds, e)
    /\ UNCHANGED <<closures, handles, hist, callbacks>>

\* a call of an unsubscribe closure the user holds, lines 58-63
Unsubscribe(e, l) ==
    /\ UserRuns
    /\ <<e, l>> \in handles
    /\ stack' = Late(stack, e, {l})
    /\ listeners' = Sweep(unsubscribe(listeners, e, l), stack')
    /\ inner' = Counted
    /\ reg' = Untrack(reg, {<<e, u>> : u \in {v \in User : Fn(v) = l}})
    /\ gone' = RemovedNow(gone, e, {l}, By(e, l))
    /\ UNCHANGED <<closures, deferreds, handles, hist, callbacks>>

\* ------------------------------------------------- listeners.forEach, 169
\* Set.prototype.forEach reads the entry at its index, moves on, and calls
\* the callback unless the entry is empty; it stops at the end of the list
\* as the list is at that moment
AtEntry ==
    IF stack = <<>> THEN FALSE
    ELSE IF Top.kind # "forEach" THEN FALSE
    ELSE Top.idx < Len(Items(Top))
Entry == Items(Top)[Top.idx + 1]
IsOnce(kind) ==
    IF ~AtEntry THEN FALSE
    ELSE IF Entry[1] # "once" THEN FALSE
    ELSE closures[Entry[2]].inner.kind = kind

\* the frame after it has called listener l
Advance(f, l) ==
    [f EXCEPT !.idx = @ + 1, !.visited = IF H("visited") THEN Append(@, l) ELSE @]

\* the stack after the forEach frame on top has called listener l, with
\* frames fs pushed for the call
Called(l, fs) == Pop(stack) \o <<Advance(Top, l)>> \o fs

Got(k) ==
    IF H("got") THEN [closures EXCEPT ![k].got = Append(@, Top.value)] ELSE closures

\* a deleted entry is passed over
SkipEmpty ==
    /\ AtEntry
    /\ Entry = Empty
    /\ stack' = [stack EXCEPT ![Len(stack)].idx = @ + 1]
    /\ UNCHANGED <<listeners, closures, deferreds, inner, handles, hist, callbacks, reg, gone>>

\* fn(value) for a listener registered with on: user code starts to run
CallListener ==
    /\ AtEntry
    /\ Entry[1] = "fn"
    /\ stack' = Called(Entry, <<[kind |-> "fn", id |-> Entry[2]]>>)
    /\ reg' = [reg EXCEPT ![<<Top.event, Entry[2]>>] =
                              Received(@, Top, Entry[2], Top.value)]
    /\ UNCHANGED <<listeners, closures, deferreds, inner, handles, hist, callbacks, gone>>

\* fn(value) for the adapter of once, lines 79-82: listener(value) is user
\* code, unsubscribe() waits for it to return
CallOnce ==
    /\ IsOnce("fn")
    /\ LET k == Entry[2] IN
        /\ stack' = Called(Entry, <<[kind |-> "once", id |-> k],
                                    [kind |-> "fn", id |-> closures[k].inner.id]>>)
        /\ closures' = Got(k)
    /\ UNCHANGED <<listeners, deferreds, inner, handles, hist, callbacks, reg, gone>>

\* (mutant) take with on in place of once: resolve(value) and no unsubscribe()
CallTakeStays ==
    /\ IsOnce("take")
    /\ stack' = Called(Entry, <<>>)
    /\ closures' = Got(Entry[2])
    /\ deferreds' = Settle(deferreds, closures[Entry[2]].inner.id, "resolved", Top.value)
    /\ UNCHANGED <<listeners, inner, handles, hist, callbacks, reg, gone>>

\* fn(value) for the adapter of take, line 96: resolve(value); unsubscribe()
CallTake ==
    /\ IsOnce("take")
    /\ LET k == Entry[2]
           e == closures[k].event IN
        /\ stack' = Late(Called(Entry, <<>>), e, {Entry})
        /\ closures' = Got(k)
        /\ deferreds' = Settle(deferreds, closures[k].inner.id, "resolved", Top.value)
        /\ listeners' = unsubscribe(listeners, e, Entry)
        /\ gone' = RemovedNow(gone, e, {Entry}, "unsubscribe")
    /\ UNCHANGED <<inner, handles, hist, callbacks, reg>>

\* fn(value) for the adapter of takeTimeout, lines 125-128:
\* clearTimeout(id); resolve(value); unsubscribe()
CallTakeTimeout ==
    /\ IsOnce("takeTimeout")
    /\ LET k == Entry[2]
           e == closures[k].event
           d == closures[k].inner.id IN
        /\ stack' = Late(Called(Entry, <<>>), e, {Entry})
        /\ closures' = Got(k)
        /\ deferreds' = Settle(ClearTimeout(deferreds, d), d, "resolved", Top.value)
        /\ listeners' = unsubscribe(listeners, e, Entry)
        /\ gone' = RemovedNow(gone, e, {Entry}, "unsubscribe")
    /\ UNCHANGED <<inner, handles, hist, callbacks, reg>>

\* (mutant) takeEither whose listeners do not unsubscribe each other
CallEitherLeaves ==
    /\ IsOnce("success") \/ IsOnce("failure")
    /\ LET k == Entry[2]
           e == closures[k].event
           st == IF closures[k].inner.kind = "success" THEN "resolved" ELSE "rejected" IN
        /\ stack' = Late(Called(Entry, <<>>), e, {Entry})
        /\ closures' = Got(k)
        /\ deferreds' = Settle(deferreds, closures[k].inner.id, st, Top.value)
        /\ listeners' = unsubscribe(listeners, e, Entry)
        /\ gone' = RemovedNow(gone, e, {Entry}, "unsubscribe")
    /\ UNCHANGED <<inner, handles, hist, callbacks, reg>>

\* (mutant) takeEither with resolve and reject exchanged
CallEitherSwapped ==
    /\ IsOnce("success") \/ IsOnce("failure")
    /\ LET k == Entry[2]
           e == closures[k].event
           o == closures[k].inner.other
           oe == closures[o].event
           st == IF closures[k].inner.kind = "success" THEN "rejected" ELSE "resolved" IN
        /\ stack' = Late(Late(Called(Entry, <<>>), oe, {Adapter(o)}), e, {Entry})
        /\ closures' = Got(k)
        /\ deferreds' = Settle(deferreds, closures[k].inner.id, st, Top.value)
        /\ listeners' = unsubscribe(unsubscribe(listeners, oe, Adapter(o)), e, Entry)
        /\ gone' = RemovedNow(RemovedNow(gone, oe, {Adapter(o)}, "unsubscribe"),
                              e, {Entry}, "unsubscribe")
    /\ UNCHANGED <<inner, handles, hist, callbacks, reg>>

\* fn(value) for the adapters of takeEither, lines 150-157: unsubscribe the
\* other adapter, resolve (success) or reject (failure), unsubscribe()
CallEither ==
    /\ IsOnce("success") \/ IsOnce("failure")
    /\ LET k == Entry[2]
           e == closures[k].event
           o == closures[k].inner.other
           oe == closures[o].event
           st == IF closures[k].inner.kind = "success" THEN "resolved" ELSE "rejected" IN
        /\ stack' = Late(Late(Called(Entry, <<>>), oe, {Adapter(o)}), e, {Entry})
        /\ closures' = Got(k)
        /\ deferreds' = Settle(deferreds, closures[k].inner.id, st, Top.value)
        /\ listeners' = unsubscribe(unsubscribe(listeners, oe, Adapter(o)), e, Entry)
        /\ gone' = RemovedNow(RemovedNow(gone, oe, {Adapter(o)}, "unsubscribe"),
                              e, {Entry}, "unsubscribe")
    /\ UNCHANGED <<inner, handles, hist, callbacks, reg>>

\* forEach is past the end of the list: emit returns
EmitReturn ==
    /\ stack # <<>>
    /\ Top.kind = "forEach"
    /\ Top.idx >= Len(Items(Top))
    /\ stack' = Pop(stack)
    /\ listeners' = Sweep(listeners, stack')
    /\ UNCHANGED <<closures, deferreds, inner, handles, hist, callbacks, reg, gone>>

\* The engine's table of a Set drops deleted entries that every forEach in
\* progress on the Set has passed, and moves the positions of these forEach
\* calls with it: what is left to each of them is the same
Passed(e) ==
    {i \in 1..Len(listeners[e].set) :
        /\ listeners[e].set[i] = Empty
        /\ \A j \in ForEachFrames :
                stack[j].event = e /\ stack[j].live => i <= stack[j].idx}
Rehash(e) ==
    /\ Passed(e) # {}
    /\ listeners' =
            [listeners EXCEPT ![e].set =
                LET q == @
                    keep == {i \in 1..Len(q) : i \notin Passed(e)}
                    at(i) == CHOOSE j \in keep :
                                Cardinality({h \in keep : h <= j}) = i
                IN  [i \in 1..Cardinality(keep) |-> q[at(i)]]]
    /\ stack' =
            [j \in 1..Len(stack) |->
                IF stack[j].kind = "forEach" /\ stack[j].event = e /\ stack[j].live
                THEN [stack[j] EXCEPT !.idx = @ - Cardinality(Passed(e))]
                ELSE stack[j]]
    /\ UNCHANGED <<closures, deferreds, inner, handles, hist, callbacks, reg, gone>>

\* (mutant) once as on: the adapter calls the listener and stays registered
ReturnKeeps ==
    /\ stack # <<>>
    /\ Top.kind = "fn"
    /\ LET below == Pop(stack) IN
        stack' = IF below[Len(below)].kind = "once" THEN Pop(below) ELSE below
    /\ UNCHANGED <<listeners, gone, closures, deferreds, inner, handles, hist, callbacks, reg>>

\* a user listener returns; when the adapter of once called it, the adapter
\* goes on with unsubscribe(), lines 80-81
Return ==
    /\ stack # <<>>
    /\ Top.kind = "fn"
    /\ LET below == Pop(stack) IN
        IF below[Len(below)].kind = "once"
        THEN LET k == below[Len(below)].id
                 e == closures[k].event IN
            /\ stack' = Late(Pop(below), e, {Adapter(k)})
            /\ listeners' = unsubscribe(listeners, e, Adapter(k))
            /\ gone' = RemovedNow(gone, e, {Adapter(k)}, "unsubscribe")
        ELSE
            /\ stack' = below
            /\ UNCHANGED <<listeners, gone>>
    /\ UNCHANGED <<closures, deferreds, inner, handles, hist, callbacks, reg>>

\* (mutant) a timer callback that rejects only if its listener is registered
TimerFiresIfListening(d) ==
    /\ stack = <<>>
    /\ d <= Len(deferreds)
    /\ deferreds[d].timer = "armed"
    /\ listeners' = Sweep(unsubscribe(listeners, deferreds[d].event,
                                      Adapter(deferreds[d].adapter)), stack)
    /\ deferreds' =
            IF Has(listeners[deferreds[d].event].set, Adapter(deferreds[d].adapter))
            THEN Settle([deferreds EXCEPT ![d].timer = "fired"], d, "rejected", Undefined)
            ELSE [deferreds EXCEPT ![d].timer = "fired"]
    /\ gone' = RemovedNow(gone, deferreds[d].event, {Adapter(deferreds[d].adapter)},
                          "unsubscribe")
    /\ UNCHANGED <<closures, stack, inner, handles, hist, callbacks, reg>>

\* (mutant) a timer callback that rejects and leaves the listener registered
TimerFiresKeeps(d) ==
    /\ stack = <<>>
    /\ d <= Len(deferreds)
    /\ deferreds[d].timer = "armed"
    /\ deferreds' = Settle([deferreds EXCEPT ![d].timer = "fired"], d, "rejected", Undefined)
    /\ UNCHANGED <<listeners, closures, stack, inner, handles, hist, callbacks, reg, gone>>

\* the callback of setTimeout, lines 120-123: unsubscribe(); reject(undefined).
\* The host runs it only when no code is running
TimerFires(d) ==
    /\ stack = <<>>
    /\ d <= Len(deferreds)
    /\ deferreds[d].timer = "armed"
    /\ listeners' = Sweep(unsubscribe(listeners, deferreds[d].event,
                                      Adapter(deferreds[d].adapter)), stack)
    /\ deferreds' = Settle([deferreds EXCEPT ![d].timer = "fired"], d, "rejected", Undefined)
    /\ gone' = RemovedNow(gone, deferreds[d].event, {Adapter(deferreds[d].adapter)},
                          "unsubscribe")
    /\ UNCHANGED <<closures, stack, inner, handles, hist, callbacks, reg>>

\* on, once, emit, off and the unsubscribe closures
Next ==
    \/ \E e \in Event, u \in User : On(e, u)
    \/ \E e \in Event, u \in User : Once(e, u)
    \/ \E e \in Event, p \in Values : Emit(e, p)
    \/ \E e \in Event : Off(e)
    \/ \E e \in Event, l \in Listener : Unsubscribe(e, l)
    \/ SkipEmpty
    \/ CallListener
    \/ CallOnce
    \/ EmitReturn
    \/ Return

Spec == Init /\ [][Next]_vars

\* the same program with the histories that the properties below read
SpecOrder == Started({"reg", "order"}) /\ [][Next]_vars
SpecDup == Started({"reg", "dup", "visited"}) /\ [][Next]_vars
SpecOnce == Started({"got"}) /\ [][Next]_vars
SpecGone == Started({"gone"}) /\ [][Next]_vars
\* on, emit, off, the unsubscribe closures, take and takeTimeout
NextTake ==
    \/ \E e \in Event, u \in User : On(e, u)
    \/ \E e \in Event : Take(e)
    \/ \E e \in Event : TakeTimeout(e)
    \/ \E e \in Event, p \in Values : Emit(e, p)
    \/ \E e \in Event : Off(e)
    \/ \E e \in Event, l \in Listener : Unsubscribe(e, l)
    \/ \E d \in 1..MaxDeferred : TimerFires(d)
    \/ SkipEmpty
    \/ CallListener
    \/ CallTake
    \/ CallTakeTimeout
    \/ EmitReturn
    \/ Return

SpecTake == Started({"value", "got"}) /\ [][NextTake]_vars
\* on, emit, off, the unsubscribe closures and takeEither
NextEither ==
    \/ \E e \in Event, u \in User : On(e, u)
    \/ \E e \in Event, f \in Event : TakeEither(e, f)
    \/ \E e \in Event, p \in Values : Emit(e, p)
    \/ \E e \in Event : Off(e)
    \/ \E e \in Event, l \in Listener : Unsubscribe(e, l)
    \/ SkipEmpty
    \/ CallListener
    \/ CallEither
    \/ EmitReturn
    \/ Return

SpecEither == Started({"value", "got"}) /\ [][NextEither]_vars
SpecEitherGone == Started({"gone", "got"}) /\ [][NextEither]_vars
\* on, once, emit, off, the unsubscribe closures, emitCallback and its closures
NextCallback ==
    \/ Next
    \/ \E e \in Event : EmitCallback(e)
    \/ \E e \in Event, v \in Values : Callback(e, v)

SpecCallback == Started({"value"}) /\ [][NextCallback]_vars
SpecTakeGone == Started({"gone", "got"}) /\ [][NextTake]_vars
SpecStart == Started({"start", "visited", "got"}) /\ [][Next]_vars
\* on, emit, off and takeTimeout, with what the host guarantees: the calls
\* in progress run on to their return, and the callback of an armed timer
\* is run at some moment when no code is running
NextTimer ==
    \/ \E e \in Event, u \in User : On(e, u)
    \/ \E e \in Event : TakeTimeout(e)
    \/ \E e \in Event, p \in Values : Emit(e, p)
    \/ \E e \in Event : Off(e)
    \/ \E d \in 1..MaxDeferred : TimerFires(d)
    \/ SkipEmpty
    \/ CallListener
    \/ CallTakeTimeout
    \/ EmitReturn
    \/ Return

Run == SkipEmpty \/ CallListener \/ CallTakeTimeout \/ EmitReturn \/ Return

SpecTimer ==
    /\ Started({"gone"})
    /\ [][NextTimer]_vars
    /\ WF_vars(Run)
    /\ \A d \in 1..MaxDeferred : SF_vars(TimerFires(d))
SpecOnceSeen == Started({"got", "visited"}) /\ [][Next]_vars
\* emit called from outside the listeners only
EmitOutside(e, p) == stack = <<>> /\ Emit(e, p)

\* on, once, off and the unsubscribe closures, called from anywhere,
\* and emit called from outside the listeners
NextLoop ==
    \/ \E e \in Event, u \in User : On(e, u)
    \/ \E e \in Event, u \in User : Once(e, u)
    \/ \E e \in Event, p \in Values : EmitOutside(e, p)
    \/ \E e \in Event : Off(e)
    \/ \E e \in Event, l \in Listener : Unsubscribe(e, l)
    \/ \E e \in Event : Rehash(e)
    \/ SkipEmpty
    \/ CallListener
    \/ CallOnce
    \/ EmitReturn
    \/ Return

\* every listener returns, and forEach goes on when it has
Returns == Return
Walks == SkipEmpty \/ CallListener \/ CallOnce \/ EmitReturn

SpecLoop ==
    /\ Started({"free"})
    /\ [][NextLoop]_vars
    /\ WF_vars(Returns)
    /\ WF_vars(Walks)
SpecTwice == Started({"reg", "dup", "gone"}) /\ [][Next]_vars
\* on, off and the unsubscribe closures, with listeners that make any
\* number of calls of them, and emit called from outside the listeners
NextOff ==
    \/ \E e \in Event, u \in User : On(e, u)
    \/ \E e \in Event, p \in Values : EmitOutside(e, p)
    \/ \E e \in Event : Off(e)
    \/ \E e \in Event, l \in Listener : Unsubscribe(e, l)
    \/ SkipEmpty
    \/ CallListener
    \/ EmitReturn
    \/ Return

SpecOff == Started({"start", "visited", "gone", "free"}) /\ [][NextOff]_vars
SpecAgain == Started({"gone", "again"}) /\ [][Next]_vars

\* ------------------------------------------------------------- properties
\* the forEach frame on top is about to call listener l
AboutToCall(l) == AtEntry /\ Entry = l

\* the forEach frame on top has walked its whole list: emit returns next
Done == stack # <<>> /\ Top.kind = "forEach" /\ Top.idx >= Len(Items(Top))

Tracked == {x \in Event \X User : reg[x].on}

\* C1 as claimed: a listener registered with on and never removed has, when
\* no call is in progress, been called exactly once for each emit call of its
\* event made since the registration and for no other emission, with the
\* payloads in the order of the emit calls.
C1_InCallOrder ==
    stack = <<>> =>
        \A x \in Tracked :
            /\ reg[x].owed = <<>>
            /\ ~reg[x].stray
            /\ reg[x].early = 0
            /\ reg[x].inorder

\* C1, amended: such a listener has, when no call is in progress, been called
\* exactly once for each emit call of its event made since the registration,
\* with that call's payload, and otherwise only by emissions of the event
\* that were in progress when it was registered; the payloads came in the
\* order of the emit calls if no emission of the event was in progress at the
\* registration and at each of these emit calls.
C1_OncePerEmit ==
    stack = <<>> =>
        \A x \in Tracked :
            /\ reg[x].owed = <<>>
            /\ ~reg[x].stray
            /\ reg[x].seq => reg[x].inorder /\ reg[x].early = 0

\* a listener registered with on while no emission was in progress has just
\* been called with the payload of an emit call made after the registration
C1_Witness ==
    \E x \in Tracked :
        /\ Len(stack) = 2
        /\ stack[1].event = x[1] /\ stack[1].value = 200
        /\ stack[2] = [kind |-> "fn", id |-> x[2]]
        /\ reg[x].seq /\ reg[x].inorder /\ reg[x].owed = <<>>
        /\ inner = 0

\* C2: an emission calls a listener that on registered (once or several
\* times) before the emission began, and that nothing removed since, at most
\* once, and exactly once by the time emit returns.
C2_OncePerEmission ==
    \A i \in ForEachFrames : \A u \in User :
        reg[<<stack[i].event, u>>].on /\ u \notin stack[i].newcomers =>
            /\ Count(stack[i].visited, Fn(u)) <= 1
            /\ i = Len(stack) /\ Done => Count(stack[i].visited, Fn(u)) = 1

\* emit is about to return after calling once a listener that on was called
\* for several times
C2_Witness ==
    /\ Done
    /\ \E u \in User :
        /\ reg[<<Top.event, u>>].on /\ reg[<<Top.event, u>>].k = 2
        /\ u \notin Top.newcomers
        /\ Count(Top.visited, Fn(u)) = 1

\* C3: the listener passed to once is called at most once, also
\* when emit is called from inside a listener.
C3_AtMostOnce ==
    \A k \in 1..Len(closures) :
        closures[k].inner.kind = "fn" => Len(closures[k].got) <= 1

\* what a call of a stale handle may do: nothing to the Map
Untouched(x) == Unsubscribe(x[1], x[2]) => listeners' = listeners

\* an emission that began after the removal of listener l from its event
\* is about to call l
CallsRemoved(by) ==
    /\ AtEntry /\ Entry # Empty
    /\ gone[<<Top.event, Entry>>] = by
    /\ Entry \notin Top.late

\* C4: after a call of the unsubscribe handle of on(e, L) or once(e, L), no
\* emission of e that begins after it calls the listener (until it is
\* registered again), and the call removes this listener from this event
\* and nothing else: the other listeners of e and the Sets of the other
\* events are as before.
C4_RemovesOnlyIts ==
    [][/\ ~CallsRemoved("unsubscribe") /\ ~CallsRemoved("unsubscribe")'
       /\ \A x \in handles :
            Unsubscribe(x[1], x[2]) =>
                /\ MembersOf(listeners', x[1]) = MembersOf(listeners, x[1]) \ {x[2]}
                /\ \A e \in Event \ {x[1]} : listeners'[e] = listeners[e]]_vars

\* an emission that began after the handle of one listener was called has
\* called another listener of the event and is about to return
C4_Witness ==
    /\ Done /\ Top.idx > 0 /\ Top.late = {}
    /\ MembersOf(listeners, Top.event) # {}
    /\ \E l \in Listener : gone[<<Top.event, l>>] = "unsubscribe"

\* C5: no emission of e that begins after off(e) calls a listener that the
\* off removed (until it is registered again); off(e) leaves the Sets of the
\* other events alone; off(e) on an event without entry changes nothing, and
\* on an event without listeners it changes no event's listeners.
C5_OffRemovesAll ==
    [][/\ ~CallsRemoved("off") /\ ~CallsRemoved("off")'
       /\ \A e \in Event :
            Off(e) =>
                /\ MembersOf(listeners', e) = {}
                /\ \A f \in Event \ {e} : listeners'[f] = listeners[f]
                /\ ~listeners[e].has => listeners' = listeners
                /\ MembersOf(listeners, e) = {} =>
                        \A f \in Event : MembersOf(listeners', f) = MembersOf(listeners, f)]_vars

\* an emission that began after off(e) has called a listener registered
\* since and is about to return, while a listener that the off removed is
\* registered for another event still
C5_Witness ==
    /\ Done /\ Top.idx > 0 /\ Top.late = {}
    /\ \E l \in Listener :
        /\ gone[<<Top.event, l>>] = "off"
        /\ \E f \in Event \ {Top.event} : l \in MembersOf(listeners, f)

\* the handles of event e whose listener off(e) removed
Stale(status) == {x \in handles : gone[x] \in status}

\* C6: a call of a handle returned before off(e) changes nothing in the Map
\* at any later point, also after new registrations for e.
C6_DeadForEver == [][\A x \in Stale({"off", "again"}) : Untouched(x)]_vars

\* what the code does give: a call of a handle returned before off(e)
\* changes nothing in the Map for as long as its listener has not been
\* registered for e again; the adapter of a once is never registered again.
C6_DeadUntilAgain ==
    [][/\ \A x \in Stale({"off"}) : Untouched(x)
       /\ \A x \in handles : x[2] \notin {Fn(u) : u \in User} => gone[x] # "again"]_vars

\* C7: a call of a handle that was called before (its listener not being
\* registered again since) changes nothing in the Map, and any call of a
\* handle removes no listener but its own from its event and none from
\* another event; a second application of the closure to its own result
\* gives this result.
C7_Idempotent ==
    [][\A x \in handles :
        /\ gone[x] = "unsubscribe" => Untouched(x)
        /\ Unsubscribe(x[1], x[2]) =>
            /\ unsubscribe(listeners', x[1], x[2]) = listeners'
            /\ \A e \in Event :
                 MembersOf(listeners, e) \ MembersOf(listeners', e) \subseteq
                    (IF e = x[1] THEN {x[2]} ELSE {})]_vars

\* a handle has been called and not registered again, while the other user
\* listener and a once adapter are registered for its event
C7_Witness ==
    \E x \in Stale({"unsubscribe"}) :
        Cardinality(MembersOf(listeners, x[1])) = 2

\* the promises of take and of takeTimeout
Takes == {d \in 1..Len(deferreds) : closures[deferreds[d].adapter].inner.kind = "take"}
Timed == {d \in 1..Len(deferreds) : deferreds[d].timer # "none"}

\* promise d is settled with the payload of the first emit of its event
\* called after its creation, at the latest when this emit has returned
FirstPayload(d) ==
    /\ deferreds[d].state = "resolved" => deferreds[d].value = deferreds[d].first
    /\ stack = <<>> /\ deferreds[d].first # Undefined => deferreds[d].state = "resolved"

\* a settled promise stays as it is, and its listener is in no Set
Settled(d) ==
    deferreds[d].state # "pending" =>
        /\ deferreds'[d].state = deferreds[d].state
        /\ deferreds'[d].value = deferreds[d].value
        /\ \A e \in Event : ~Has(listeners[e].set, Adapter(deferreds[d].adapter))

\* C8 as claimed: the promise of take(e) resolves with the payload of the
\* first emission of e that begins after the take(e) call and with no other
\* payload; nothing changes it afterwards.
C8_FirstAfterTake ==
    [][\A d \in Takes : FirstPayload(d) /\ Settled(d)]_vars

\* C8, amended: the promise of take(e) never rejects and nothing changes it
\* once it is settled; if take(e) was called, and emit(e) was called since,
\* only while no emission of e was in progress, and off(e) was not called
\* before the promise settled, it resolves with the payload of the first
\* emit(e) called after the take(e) call, before this emit returns.
C8_FirstWhenApart ==
    [][\A d \in Takes :
        /\ deferreds[d].state # "rejected"
        /\ deferreds[d].clean => FirstPayload(d)
        /\ Settled(d)]_vars

\* a take promise is resolved with the payload of the first of several
\* emit calls, and a later emit with another payload has been called
C8_Witness ==
    \E d \in Takes :
        /\ deferreds[d].clean /\ deferreds[d].state = "resolved"
        /\ deferreds[d].value = 200
        /\ stack # <<>> /\ Top.kind = "forEach"
        /\ Top.event = deferreds[d].event /\ Top.value = 100
        /\ ~Has(Items(Top), Adapter(deferreds[d].adapter))

TimedOut(d) ==
    deferreds[d].timer = "fired" =>
        /\ deferreds[d].state = "rejected" /\ deferreds[d].value = Undefined
        /\ closures[deferreds[d].adapter].got = <<>>
        /\ \A e \in Event : ~Has(listeners[e].set, Adapter(deferreds[d].adapter))
        /\ ~AboutToCall(Adapter(deferreds[d].adapter))

\* C10: when the timer of takeTimeout(e, t) fires before an emission of e
\* has called its listener, the promise is rejected with undefined and the
\* listener is out of e's Set; no later emission calls the listener or
\* changes the promise.
C10_RejectsAndRemoves ==
    [][\A d \in Timed :
        /\ TimerFires(d) => deferreds'[d].timer = "fired"
        /\ TimedOut(d) /\ TimedOut(d)'
        /\ deferreds[d].timer = "fired" => deferreds'[d] = deferreds[d]]_vars

\* after the timer of a takeTimeout(e, t) fired, an emission of e has called
\* another listener and is about to return
C10_Witness ==
    \E d \in Timed :
        /\ deferreds[d].timer = "fired" /\ deferreds[d].state = "rejected"
        /\ Done /\ Top.idx > 0 /\ Top.event = deferreds[d].event

\* the promises of takeEither
Eithers ==
    {d \in 1..Len(deferreds) : closures[deferreds[d].adapter].inner.kind = "success"}

\* promise d is settled as the first emit of one of its two events, called
\* after its creation, says: resolved with the payload for the success
\* event, rejected with it for the failure event, at the latest when this
\* emit has returned
FirstDecides(d) ==
    /\ deferreds[d].state # "pending" =>
            /\ deferreds[d].state = deferreds[d].want
            /\ deferreds[d].value = deferreds[d].first
    /\ stack = <<>> /\ deferreds[d].first # Undefined => deferreds[d].state # "pending"

\* C11 as claimed: of the two events of takeEither(s, f) the one emitted
\* first decides: the promise resolves with the payload of s, or rejects
\* with the payload of f, and later emissions do not change it.
C11_FirstEmitted ==
    [][\A d \in Eithers : FirstDecides(d) /\ Settled(d)]_vars

\* C11, amended: if takeEither(s, f) was called, and s and f were emitted
\* since, only while no emission of s or f was in progress, and off was not
\* called for s or f before the promise settled, the event emitted first
\* decides; in any case nothing changes the promise once it is settled.
C11_FirstWhenApart ==
    [][\A d \in Eithers :
        /\ deferreds[d].clean => FirstDecides(d)
        /\ Settled(d)]_vars

\* the failure event was emitted first and the promise is rejected with its
\* payload, and a later emission of the success event is in progress
C11_Witness ==
    \E d \in Eithers :
        /\ deferreds[d].clean /\ deferreds[d].state = "rejected"
        /\ deferreds[d].value = 200
        /\ stack # <<>> /\ Top.kind = "forEach"
        /\ Top.event = deferreds[d].event /\ Top.value = 100
        /\ Waited(deferreds[d]) = Event

\* emit is at work: forEach is on top of the stack
InForEach == IF stack = <<>> THEN FALSE ELSE Top.kind = "forEach"

\* the listener that forEach is about to call is a member of the Set of the
\* emitted event, or was one until an off during this emission
CallsItsOwn ==
    AtEntry /\ Entry # Empty =>
        IF Top.live THEN Has(listeners[Top.event].set, Entry) ELSE Entry \in Top.late

\* the members of the Set of event b that a step of emit removes when it
\* calls an adapter of takeEither: the other adapter
Counterpart(b) ==
    IF IsOnce("success") \/ IsOnce("failure")
    THEN {Adapter(closures[Entry[2]].inner.other)} \cap MembersOf(listeners, b)
    ELSE {}

\* C12 as claimed: emit(A, p) calls members of A's Set only, and its steps
\* (the call, forEach, the adapters of once and of the takes) leave the Set
\* of every other event B as it is.
C12_OtherSetsAsTheyAre ==
    [][/\ CallsItsOwn /\ CallsItsOwn'
       /\ \A e \in Event, p \in Payload : Emit(e, p) => listeners' = listeners
       /\ InForEach =>
            \A b \in Event \ {Top.event} :
                MembersOf(listeners', b) = MembersOf(listeners, b)]_vars

\* C12, amended: emit(A, p) calls members of A's Set only (a listener
\* registered for B only is never called), the emit call changes no Set, and
\* the steps of forEach change the Set of another event B in one way only:
\* an adapter of takeEither(A, B) or takeEither(B, A) called for A removes
\* the other adapter from B's Set.
C12_OnlyItsOwn ==
    [][/\ CallsItsOwn /\ CallsItsOwn'
       /\ \A e \in Event, p \in Payload : Emit(e, p) => listeners' = listeners
       /\ InForEach =>
            \A b \in Event \ {Top.event} :
                MembersOf(listeners', b) = MembersOf(listeners, b) \ Counterpart(b)]_vars

\* an emission of A has called an adapter of takeEither(A, B) and is about
\* to return, while B's Set holds a listener registered for B only
C12_Witness ==
    /\ Done /\ Top.idx > 0
    /\ \E d \in Eithers :
        /\ deferreds[d].state # "pending"
        /\ Waited(deferreds[d]) = Event
        /\ \E k \in 1..Len(closures) :
                closures[k].event = Top.event /\ Len(closures[k].got) = 1
    /\ \E b \in Event \ {Top.event} :
         \E u \in User :
            /\ Fn(u) \in MembersOf(listeners, b)
            /\ Fn(u) \notin MembersOf(listeners, Top.event)

\* C13: a call with value v of the closure that emitCallback(e) returned
\* does what emit(e, v) does in the same state: the same forEach over e's
\* Set with payload v starts (or nothing, without entry for e) and the Map
\* is the same; emitCallback(e) itself changes nothing but the closures the
\* user holds.
C13_CallbackEmits ==
    [][/\ \A e \in Event, v \in Payload :
            Callback(e, v) =>
                /\ Emit(e, v)
                /\ listeners' = listeners
                /\ stack' = IF listeners[e].has THEN Append(stack, Frame(e, v)) ELSE stack
       /\ \A e \in Event :
            EmitCallback(e) =>
                /\ UNCHANGED <<listeners, closures, deferreds, stack, handles>>
                /\ callbacks \subseteq callbacks']_vars

\* a forEach over the Set of an event with a listener has started with
\* payload 200, and the user holds the closure of emitCallback for the event
C13_Witness ==
    /\ InForEach /\ Top.value = 200 /\ Top.idx = 0 /\ Top.event \in callbacks
    /\ MembersOf(listeners, Top.event) # {}

\* the Map holds the same entries with the same members
SameRegistry ==
    \A b \in Event :
        /\ listeners'[b].has = listeners[b].has
        /\ MembersOf(listeners', b) = MembersOf(listeners, b)

\* C14: emit for an event without listeners (no entry in the Map, after off
\* or from the start, or an entry whose Set has no member left) calls no
\* listener and changes nothing: the call leaves the Map, the adapters and
\* the promises as they are, and its forEach calls nothing and returns.
C14_EmitToNobody ==
    [][/\ \A e \in Event, p \in Payload :
            Emit(e, p) /\ MembersOf(listeners, e) = {} =>
                /\ listeners' = listeners
                /\ UNCHANGED <<closures, deferreds, handles>>
                /\ ~listeners[e].has => stack' = stack
       /\ InForEach =>
            (Top.live /\ MembersOf(listeners, Top.event) = {} =>
                /\ Len(stack') <= Len(stack)
                /\ SameRegistry
                /\ UNCHANGED <<closures, deferreds, handles>>)]_vars

\* emit was called for an event whose listeners have all been unsubscribed,
\* and its forEach is about to return from the empty Set
C14_Witness ==
    /\ Done /\ Top.idx = 0 /\ Top.live
    /\ MembersOf(listeners, Top.event) = {}
    /\ \E l \in Listener : gone[<<Top.event, l>>] = "unsubscribe"

\* off was called for the event of promise d after its listener was added
CutOff(d) == gone[<<deferreds[d].event, Adapter(deferreds[d].adapter)>>] = "off"

\* a forEach that off has cut from the Map has the listener of promise d
\* ahead of it still
Ahead(d) ==
    \E i \in ForEachFrames :
        /\ ~stack[i].live
        /\ \E j \in (stack[i].idx + 1)..Len(stack[i].items) :
                stack[i].items[j] = Adapter(deferreds[d].adapter)

\* the promise of a take is never rejected, and is resolved only by an
\* emission of its event that calls its listener
OnlyByEmit(d) ==
    /\ deferreds[d].state # "rejected"
    /\ deferreds[d].state = "resolved" => closures[deferreds[d].adapter].got # <<>>
    /\ AboutToCall(Adapter(deferreds[d].adapter)) => Top.event = deferreds[d].event

\* C15 as claimed: a promise of take(e) that is pending when off(e) is
\* called is pending for ever after; and a promise of take(e) is never
\* rejected and stays pending while no emission of e calls its listener.
C15_PendingForEver ==
    [][\A d \in Takes :
        /\ CutOff(d) /\ deferreds[d].state = "pending" => deferreds'[d].state = "pending"
        /\ OnlyByEmit(d)]_vars

\* C15, amended: a promise of take(e) that is pending when off(e) is called
\* is resolved by no emission of e that begins after the off, and is pending
\* for ever after unless an emission of e in progress at the off has its
\* listener ahead of it still; and a promise of take(e) is never rejected
\* and stays pending while no emission of e calls its listener.
C15_PendingUnlessAhead ==
    [][\A d \in Takes :
        /\ CutOff(d) /\ deferreds[d].state = "pending" /\ ~Ahead(d) =>
                deferreds'[d].state = "pending" /\ ~Ahead(d)'
        /\ CutOff(d) /\ AboutToCall(Adapter(deferreds[d].adapter)) =>
                Adapter(deferreds[d].adapter) \in Top.late
        /\ OnlyByEmit(d)]_vars

\* off(e) was called while a promise of take(e) was pending, an emission of
\* e that began later has called a listener and is about to return, and the
\* promise is pending
C15_Witness ==
    \E d \in Takes :
        /\ CutOff(d) /\ deferreds[d].state = "pending"
        /\ Done /\ Top.idx > 0 /\ Top.late = {} /\ Top.event = deferreds[d].event

\* C16: emit walks the members its Set had when the call began: a listener
\* that on adds to the event's Set while the emission is in progress (for
\* the first time, or again after its removal during this emission) is not
\* called by this emission.
C16_Snapshot ==
    ~(AtEntry /\ Entry[1] = "fn" /\ Entry[2] \in Top.newcomers)

\* C17: when emit returns, its forEach has called each listener that was a
\* member of the event's Set when the call began exactly once, whatever the
\* listeners unsubscribed during the call.
C17_EachStartMemberOnce ==
    Done => \A l \in Top.start : Count(Top.visited, l) = 1

\* takeTimeout has returned promise d / promise d is settled
Returned(d) == d <= Len(deferreds)
IsSettled(d) == IF d <= Len(deferreds) THEN deferreds[d].state # "pending" ELSE FALSE

\* C18: every promise of takeTimeout is settled at last (an armed timer
\* fires at last), also when off removed its listener, and once resolved or
\* rejected it stays so.
C18_SettledAtLast ==
    /\ \A d \in 1..MaxDeferred : Returned(d) ~> IsSettled(d)
    /\ [][\A d \in Timed :
            deferreds[d].state # "pending" => deferreds'[d].state = deferreds[d].state]_vars

\* off removed the listener of a takeTimeout promise, and the timer has
\* rejected the promise
C18_Witness ==
    \E d \in Timed :
        /\ CutOff(d)
        /\ deferreds[d].state = "rejected" /\ deferreds[d].timer = "fired"

\* the two adapters of the takeEither promise d
Pair(d) == {deferreds[d].adapter, closures[deferreds[d].adapter].inner.other}

\* how many calls the adapters of promise d have got
Invoked(d) ==
    Len(closures[deferreds[d].adapter].got)
        + Len(closures[closures[deferreds[d].adapter].inner.other].got)

\* promise d is settled at most once, it is settled as soon as one of its
\* adapters is called, and none of them is in the Map when it is settled
SettledOnce(d) ==
    /\ deferreds[d].state # "pending" =>
            /\ deferreds'[d].state = deferreds[d].state
            /\ deferreds'[d].value = deferreds[d].value
            /\ \A e \in Event, k \in Pair(d) : ~Has(listeners[e].set, Adapter(k))
    /\ deferreds[d].state = "pending" <=> Invoked(d) = 0

\* C19 as claimed: of the two listeners of takeEither(s, f) at most one is
\* ever called, the promise is settled at most once, and when it is settled
\* none of the two is registered.
C19_OneListenerOnly ==
    [][\A d \in Eithers : Invoked(d) <= 1 /\ SettledOnce(d)]_vars

\* C19, amended: the promise of takeEither(s, f) is settled at most once,
\* by the first of its two listeners that is called, and when it is settled
\* none of the two is registered; the other listener is called afterwards
\* only by an emission that was in progress when off removed its Set from
\* the Map, and never by an emission that begins after the promise settled.
C19_OneListenerSettles ==
    [][\A d \in Eithers :
        /\ SettledOnce(d)
        /\ \A k \in Pair(d) :
            deferreds[d].state # "pending" /\ AboutToCall(Adapter(k)) =>
                ~Top.live /\ Top.idx > 0]_vars

\* the success event was emitted and settled the promise, and an emission
\* of the failure event that began later is about to return without a call
\* of the failure listener
C19_Witness ==
    \E d \in Eithers :
        /\ deferreds[d].state = "resolved" /\ Invoked(d) = 1
        /\ Waited(deferreds[d]) = Event
        /\ Done /\ Top.idx > 0 /\ Top.event # deferreds[d].event

\* the adapters of once(e, L)
Onces == {k \in 1..Len(closures) : closures[k].inner.kind = "fn"}

\* adapter k has called its listener and no call of it is in progress
Fired(k) ==
    /\ closures[k].got # <<>>
    /\ \A i \in 1..Len(stack) : stack[i].kind = "once" => stack[i].id # k

\* when the forEach of emit is about to return, the adapters of once that
\* it has called are in no Set of the Map
FiredAndGone ==
    Done =>
        \A k \in Onces :
            Count(Top.visited, Adapter(k)) > 0 =>
                \A e \in Event : ~Has(listeners[e].set, Adapter(k))

\* C20: when the emit call in which the adapter of once(e, L) called L has
\* returned, the adapter is not a member of e's Set, and a call of the
\* handle that once returned changes nothing in the Map from then on.
C20_FiredOnceIsGone ==
    [][/\ FiredAndGone /\ FiredAndGone'
       /\ \A x \in handles :
            x[2][1] = "once" /\ Fired(x[2][2]) => Untouched(x)]_vars

\* the listener of a once has been called, all calls have returned, the user
\* holds the handle of the once, and another listener is registered for
\* the event
C20_Witness ==
    /\ stack = <<>>
    /\ \E x \in handles :
        /\ x[2][1] = "once" /\ Fired(x[2][2])
        /\ MembersOf(listeners, x[1]) # {}

\* C21: when no listener calls emit, every emit call returns, whatever the
\* listeners register and remove while it is in progress.
C21_EmitReturns == (stack # <<>>) ~> (stack = <<>>)

\* on was called more than once for the listener of handle x, which is
\* registered
Twice(x) ==
    \E u \in User : x[2] = Fn(u) /\ reg[<<x[1], u>>].k = 2

\* C22: after two calls of on(e, L), a call of either handle removes L from
\* e's Set, no emission of e that begins after it calls L (until L is
\* registered again), and a call of the other handle then changes nothing
\* in the Map.
C22_EitherHandleRemoves ==
    [][/\ ~CallsRemoved("either") /\ ~CallsRemoved("either")'
       /\ \A x \in handles :
            /\ Twice(x) /\ Unsubscribe(x[1], x[2]) =>
                    /\ x[2] \notin MembersOf(listeners', x[1])
                    /\ gone'[x] = "either"
            /\ gone[x] = "either" => Untouched(x)]_vars

\* a listener that on was called twice for was removed by a handle, and an
\* emission of its event that began later has called another listener and
\* is about to return
C22_Witness ==
    /\ Done /\ Top.idx > 0 /\ Top.late = {}
    /\ \E l \in Listener : gone[<<Top.event, l>>] = "either"

\* the listeners a forEach frame has called
Invocations(f) == {f.visited[i] : i \in 1..Len(f.visited)}

\* C23: when off(e) was called while an emission of e was in progress, this
\* emission has, when it returns, called every listener that was a member of
\* e's Set when it began, and no emission of e that begins after the off
\* calls a listener that the off removed.
C23_RestStillInvoked ==
    /\ Done /\ ~Top.live => Top.start \subseteq Invocations(Top)
    /\ ~CallsRemoved("off")

\* what the code does give: the emission calls the listeners that were
\* members of e's Set at the off, and the later emissions call none of them
C23_MembersAtOffInvoked ==
    /\ Done /\ ~Top.live => Members(Top.items) \subseteq Invocations(Top)
    /\ ~CallsRemoved("off")
====
